---- MODULE Spec2Model ----
(***************************************************************************)
(* Model of src/graph.rs: an undirected graph (vertex set + edge list),    *)
(* its adjacency map, the recursive depth-first exploration, and the two   *)
(* public queries connected_components() and is_reachable(v, w).           *)
(*                                                                         *)
(* The recursion of `visit` is an explicit stack of frames; the iteration  *)
(* order of HashSet (vertex set, neighbour sets) is a free choice of the   *)
(* next element among those not yet enumerated.                            *)
(***************************************************************************)
EXTENDS Integers, Sequences, FiniteSets, TLC

\* ------------------------------------------------------------------ bounds
MaxVertex == 3
MaxEdges == 2

Vertex == 1..MaxVertex
EdgeLists == UNION {[1..n -> Vertex \X Vertex] : n \in 0..MaxEdges}

VARIABLES
    pc,          \* position of the program: init | idle | dfs | visit | returned | panic
    vertices,    \* Graph.vertices
    edges,       \* Graph.edges
    op,          \* the public query in progress: none | cc | reach
    arg_v,       \* is_reachable's v
    arg_w,       \* is_reachable's w
    adj,         \* explore's adjacency map (rebuilt by every explore)
    visited,     \* the visited set of the query
    component,   \* the discovery list of the exploration in progress
    components,  \* depth_first_search's list of components
    scan,        \* vertices the loop of depth_first_search has not enumerated yet
    stack,       \* the frames of visit: the vertex and its neighbours not enumerated yet
    origin,      \* the vertex the exploration in progress started at
    visits,      \* number of times visit was entered in the query
    result,      \* value returned by connected_components()
    reachable,   \* value returned by is_reachable()
    hdr_v,       \* load: v of the header tuple, a u32 as <<high half, low half>>
    hdr_e,       \* load: e of the header tuple
    reads,       \* number of next_tuple calls made on the tuple source
    tuples,      \* the tuples the source yielded after the header, in order
    first,       \* what the caller kept of the first of two queries
    rebuilt      \* the caller rebuilt the graph from a rewritten edge list

graph == <<vertices, edges>>
call == <<op, arg_v, arg_w>>
locals == <<adj, visited, component, components, scan, stack, origin, visits>>
rets == <<result, reachable>>
source == <<hdr_v, hdr_e, reads, tuples>>
caller == <<first, rebuilt>>
vars == <<pc, vertices, edges, op, arg_v, arg_w, adj, visited, component,
          components, scan, stack, origin, visits, result, reachable,
          hdr_v, hdr_e, reads, tuples, first, rebuilt>>

NoAdj == <<>>
NoFirst == [op |-> "none", v |-> 0, w |-> 0, reachable |-> FALSE, members |-> {}]

Range(s) == {s[i] : i \in DOMAIN s}
\* the components of a result by membership
Members(l) == {Range(l[i]) : i \in DOMAIN l}

\* ------------------------------------------------------------------ helpers
\* every edge endpoint is a declared vertex
Closed(vs, es) == \A i \in 1..Len(es) : es[i][1] \in vs /\ es[i][2] \in vs

\* each edge inserted in one direction only
RECURSIVE AdjFoldDirected(_, _, _)
AdjFoldDirected(a, es, i) ==
    IF i > Len(es) THEN [ok |-> TRUE, map |-> a]
    ELSE LET e == es[i] IN
         IF e[1] \notin DOMAIN a \/ e[2] \notin DOMAIN a THEN [ok |-> FALSE, map |-> a]
         ELSE AdjFoldDirected([a EXCEPT ![e[1]] = @ \cup {e[2]}], es, i + 1)

\* an edge with an undeclared endpoint is ignored instead of aborting
RECURSIVE AdjFoldLenient(_, _, _)
AdjFoldLenient(a, es, i) ==
    IF i > Len(es) THEN [ok |-> TRUE, map |-> a]
    ELSE LET e == es[i] IN
         IF e[1] \notin DOMAIN a \/ e[2] \notin DOMAIN a
         THEN AdjFoldLenient(a, es, i + 1)
         ELSE LET a1 == [a EXCEPT ![e[1]] = @ \cup {e[2]}] IN
              AdjFoldLenient([a1 EXCEPT ![e[2]] = @ \cup {e[1]}], es, i + 1)

\* each edge replaces the neighbour sets of its endpoints instead of adding to them
RECURSIVE AdjFoldOverwrite(_, _, _)
AdjFoldOverwrite(a, es, i) ==
    IF i > Len(es) THEN [ok |-> TRUE, map |-> a]
    ELSE LET e == es[i] IN
         IF e[1] \notin DOMAIN a \/ e[2] \notin DOMAIN a THEN [ok |-> FALSE, map |-> a]
         ELSE AdjFoldOverwrite([[a EXCEPT ![e[1]] = {e[2]}] EXCEPT ![e[2]] = {e[1]}],
                               es, i + 1)

RECURSIVE AdjFold(_, _, _)
AdjFold(a, es, i) ==
    IF i > Len(es) THEN [ok |-> TRUE, map |-> a]
    ELSE LET e == es[i] IN
         IF e[1] \notin DOMAIN a THEN [ok |-> FALSE, map |-> a]
         ELSE LET a1 == [a EXCEPT ![e[1]] = @ \cup {e[2]}] IN
              IF e[2] \notin DOMAIN a1 THEN [ok |-> FALSE, map |-> a1]
              ELSE AdjFold([a1 EXCEPT ![e[2]] = @ \cup {e[1]}], es, i + 1)

\* the first edge of the list is left out
adjacenciesSkipFirst(vs, es) == AdjFold([x \in vs |-> {}], es, 2)

\* Graph::adjacencies: ok = FALSE when an unwrap() of a missing key aborts
adjacencies(vs, es) == AdjFold([x \in vs |-> {}], es, 1)

\* ------------------------------------------------------------------ initial state
Init ==
    /\ pc = "init"
    /\ vertices = {}
    /\ edges = <<>>
    /\ op = "none"
    /\ arg_v = 0
    /\ arg_w = 0
    /\ adj = NoAdj
    /\ visited = {}
    /\ component = <<>>
    /\ components = <<>>
    /\ scan = {}
    /\ stack = <<>>
    /\ origin = 0
    /\ visits = 0
    /\ result = <<>>
    /\ reachable = FALSE
    /\ hdr_v = <<0, 0>>
    /\ hdr_e = 0
    /\ reads = 0
    /\ tuples = <<>>
    /\ first = NoFirst
    /\ rebuilt = FALSE

\* ------------------------------------------------------------------ construction
\* Graph::new
new(vs, es) ==
    /\ pc = "init"
    /\ vertices' = vs
    /\ edges' = es
    /\ pc' = "idle"
    /\ UNCHANGED <<call, locals, rets, source, caller>>

New ==
    /\ pc = "init"
    /\ \E vs \in SUBSET Vertex, es \in EdgeLists : new(vs, es)

\* the caller drops the graph
Drop ==
    /\ pc = "idle"
    /\ pc' = "init"
    /\ vertices' = {}
    /\ edges' = <<>>
    /\ UNCHANGED <<call, locals, rets, source, caller>>

\* ------------------------------------------------------------------ traversal
\* a vertex without an adjacency entry is neither marked nor recorded
visitKnownOnly(v, a, vis, comp, stk, n) ==
    /\ visited' = IF v \in DOMAIN a THEN vis \cup {v} ELSE vis
    /\ component' = IF v \in DOMAIN a THEN Append(comp, v) ELSE comp
    /\ stack' = Append(stk, [v |-> v, todo |-> IF v \in DOMAIN a THEN a[v] ELSE {}])
    /\ visits' = n + 1
    /\ pc' = "visit"

\* entry of the inner fn visit: mark, record, start enumerating the neighbours
visit(v, a, vis, comp, stk, n) ==
    /\ visited' = vis \cup {v}
    /\ component' = Append(comp, v)
    /\ stack' = Append(stk, [v |-> v, todo |-> IF v \in DOMAIN a THEN a[v] ELSE {}])
    /\ visits' = n + 1
    /\ pc' = "visit"

\* Graph::explore: build the adjacency map, then visit the origin
explore(v, vis, comp, n) ==
    LET a == adjacencies(vertices, edges) IN
    IF a.ok
    THEN /\ adj' = a.map
         /\ origin' = v
         /\ visit(v, a.map, vis, comp, <<>>, n)
    ELSE /\ pc' = "panic"
         /\ visited' = vis
         /\ component' = comp
         /\ visits' = n
         /\ UNCHANGED <<adj, stack, origin>>

\* the for loop of visit: the next neighbour is already visited
VisitSkip ==
    /\ pc = "visit"
    /\ LET top == stack[Len(stack)] IN
       \E w \in top.todo :
          /\ w \in visited
          /\ stack' = [stack EXCEPT ![Len(stack)].todo = @ \ {w}]
    /\ UNCHANGED <<pc, graph, call, adj, visited, component, components, scan,
                   origin, visits, rets, source, caller>>

\* the recursion does not look at the visited set
VisitRecurseUnchecked ==
    /\ pc = "visit"
    /\ LET top == stack[Len(stack)] IN
       \E w \in top.todo :
          visit(w, adj, visited, component,
                [stack EXCEPT ![Len(stack)].todo = @ \ {w}], visits)
    /\ UNCHANGED <<graph, call, adj, components, scan, origin, rets, source, caller>>

\* the loop over the neighbours ends after the first recursion
VisitRecurseOnce ==
    /\ pc = "visit"
    /\ LET top == stack[Len(stack)] IN
       \E w \in top.todo :
          /\ w \notin visited
          /\ visit(w, adj, visited, component,
                   [stack EXCEPT ![Len(stack)].todo = {}], visits)
    /\ UNCHANGED <<graph, call, adj, components, scan, origin, rets, source, caller>>

\* the for loop of visit: the next neighbour is not visited, recurse
VisitRecurse ==
    /\ pc = "visit"
    /\ LET top == stack[Len(stack)] IN
       \E w \in top.todo :
          /\ w \notin visited
          /\ visit(w, adj, visited, component,
                   [stack EXCEPT ![Len(stack)].todo = @ \ {w}], visits)
    /\ UNCHANGED <<graph, call, adj, components, scan, origin, rets, source, caller>>

\* visit returns to the visit that called it
VisitReturn ==
    /\ pc = "visit"
    /\ Len(stack) > 1
    /\ stack[Len(stack)].todo = {}
    /\ stack' = SubSeq(stack, 1, Len(stack) - 1)
    /\ UNCHANGED <<pc, graph, call, adj, visited, component, components, scan,
                   origin, visits, rets, source, caller>>

\* the outermost visit returns, explore returns into depth_first_search
ExploreReturnDfs ==
    /\ pc = "visit"
    /\ op = "cc"
    /\ Len(stack) = 1
    /\ stack[1].todo = {}
    /\ stack' = <<>>
    /\ adj' = NoAdj
    /\ components' = Append(components, component)
    /\ pc' = "dfs"
    /\ UNCHANGED <<graph, call, visited, component, scan, origin, visits, rets, source, caller>>

\* is_reachable looks v up in the visited set instead of w
ExploreReturnReachOrigin ==
    /\ pc = "visit"
    /\ op = "reach"
    /\ Len(stack) = 1
    /\ stack[1].todo = {}
    /\ stack' = <<>>
    /\ adj' = NoAdj
    /\ reachable' = (arg_v \in visited)
    /\ pc' = "returned"
    /\ UNCHANGED <<graph, call, visited, component, components, scan, origin,
                   visits, result, source, caller>>

\* the outermost visit returns, explore returns into is_reachable, which returns
ExploreReturnReach ==
    /\ pc = "visit"
    /\ op = "reach"
    /\ Len(stack) = 1
    /\ stack[1].todo = {}
    /\ stack' = <<>>
    /\ adj' = NoAdj
    /\ reachable' = (arg_w \in visited)
    /\ pc' = "returned"
    /\ UNCHANGED <<graph, call, visited, component, components, scan, origin,
                   visits, result, source, caller>>

\* ------------------------------------------------------------------ queries
\* Graph::connected_components -> depth_first_search, up to its loop
connected_components ==
    /\ pc = "idle"
    /\ op' = "cc"
    /\ components' = <<>>
    /\ visited' = {}
    /\ scan' = vertices
    /\ visits' = 0
    /\ pc' = "dfs"
    /\ UNCHANGED <<graph, arg_v, arg_w, adj, component, stack, origin, rets, source, caller>>

\* the loop of depth_first_search: the next vertex is already visited
DfsSkip ==
    /\ pc = "dfs"
    /\ \E v \in scan :
          /\ v \in visited
          /\ scan' = scan \ {v}
    /\ UNCHANGED <<pc, graph, call, adj, visited, component, components, stack,
                   origin, visits, rets, source, caller>>

\* the loop of depth_first_search does not look at the visited set
DfsExploreUnchecked ==
    /\ pc = "dfs"
    /\ \E v \in scan :
          /\ scan' = scan \ {v}
          /\ explore(v, visited, <<>>, visits)
    /\ UNCHANGED <<graph, call, components, rets, source, caller>>

\* the loop of depth_first_search: the next vertex starts a new component
DfsExplore ==
    /\ pc = "dfs"
    /\ \E v \in scan :
          /\ v \notin visited
          /\ scan' = scan \ {v}
          /\ explore(v, visited, <<>>, visits)
    /\ UNCHANGED <<graph, call, components, rets, source, caller>>

\* the loop of depth_first_search is over
DfsReturn ==
    /\ pc = "dfs"
    /\ scan = {}
    /\ result' = components
    /\ pc' = "returned"
    /\ UNCHANGED <<graph, call, locals, reachable, source, caller>>

\* Graph::is_reachable, up to the first step of the exploration
is_reachable(v, w) ==
    /\ pc = "idle"
    /\ op' = "reach"
    /\ arg_v' = v
    /\ arg_w' = w
    /\ explore(v, {}, <<>>, 0)
    /\ UNCHANGED <<graph, components, scan, rets, source, caller>>

IsReachable ==
    /\ pc = "idle"
    /\ \E v \in Vertex, w \in Vertex : is_reachable(v, w)

\* the caller takes the returned value; the locals of the query are gone
Resume ==
    /\ pc = "returned"
    /\ pc' = "idle"
    /\ op' = "none"
    /\ arg_v' = 0
    /\ arg_w' = 0
    /\ adj' = NoAdj
    /\ visited' = {}
    /\ component' = <<>>
    /\ components' = <<>>
    /\ scan' = {}
    /\ stack' = <<>>
    /\ origin' = 0
    /\ visits' = 0
    /\ result' = <<>>
    /\ reachable' = FALSE
    /\ first' = NoFirst
    /\ rebuilt' = FALSE
    /\ UNCHANGED <<graph, source>>

Step ==
    \/ VisitSkip
    \/ VisitRecurse
    \/ VisitReturn
    \/ ExploreReturnDfs
    \/ ExploreReturnReach
    \/ DfsSkip
    \/ DfsExplore
    \/ DfsReturn

\* any graph, closed or not; one query at a time, any number of queries
Next ==
    \/ New
    \/ Drop
    \/ connected_components
    \/ IsReachable
    \/ Step
    \/ Resume

Spec == Init /\ [][Next]_vars

\* ------------------------------------------------------------------ load
\* u32 values are pairs <<high, low>> of 16-bit halves
Half == 65536
U32(n) == <<n \div Half, n % Half>>
U32Max == <<Half - 1, Half - 1>>
ToInt(x) == x[1] * Half + x[2]
\* v + 1 overflows
Overflows(x) == x = U32Max
\* v + 1 of a build without overflow checks
WrappingInc(x) ==
    IF x[2] < Half - 1 THEN <<x[1], x[2] + 1>>
    ELSE IF x[1] < Half - 1 THEN <<x[1] + 1, 0>>
    ELSE <<0, 0>>
\* (1..end).collect(): the half-open range [1, end)
RangeFrom1(end) == 1..(ToInt(end) - 1)

Headers == {U32(n) : n \in 0..MaxVertex} \cup {U32Max}
TupleValue == 0..(MaxVertex + 1)

\* Graph::load, the header and the vertex range; v + 1 aborts in a build with
\* overflow checks and wraps in a build without
load(v, e, checked) ==
    /\ pc = "init"
    /\ hdr_v' = v
    /\ hdr_e' = e
    /\ reads' = 1
    /\ tuples' = <<>>
    /\ op' = "load"
    /\ edges' = <<>>
    /\ IF Overflows(v) /\ checked
       THEN pc' = "panic" /\ UNCHANGED vertices
       ELSE pc' = "load" /\ vertices' = RangeFrom1(WrappingInc(v))
    /\ UNCHANGED <<arg_v, arg_w, locals, rets, caller>>

Load ==
    /\ pc = "init"
    /\ \E v \in Headers, e \in 0..MaxEdges, checked \in BOOLEAN : load(v, e, checked)

\* one iteration of load's loop: read a tuple, push it
load_edge(t) ==
    /\ pc = "load"
    /\ Len(tuples) < hdr_e
    /\ reads' = reads + 1
    /\ tuples' = Append(tuples, t)
    /\ edges' = Append(edges, t)
    /\ UNCHANGED <<pc, vertices, call, locals, rets, hdr_v, hdr_e, caller>>

LoadEdge ==
    /\ pc = "load"
    /\ \E t \in TupleValue \X TupleValue : load_edge(t)

\* load's loop is over: Graph::new(vertices, edges)
LoadReturn ==
    /\ pc = "load"
    /\ Len(tuples) = hdr_e
    /\ pc' = "idle"
    /\ op' = "none"
    /\ UNCHANGED <<graph, arg_v, arg_w, locals, rets, source, caller>>

NextLoad ==
    \/ Load
    \/ LoadEdge
    \/ LoadReturn
    \/ connected_components
    \/ IsReachable
    \/ Step
    \/ Resume

SpecLoad == Init /\ [][NextLoad]_vars

\* ------------------------------------------------------------------ two queries
NewClosed ==
    /\ pc = "init"
    /\ \E vs \in SUBSET Vertex, es \in EdgeLists : Closed(vs, es) /\ new(vs, es)

\* edge lists with the same unordered pairs: an edge duplicated, two edges
\* exchanged, an edge turned round
Rewrites(es) ==
    (IF Len(es) < MaxEdges THEN {Append(es, es[i]) : i \in 1..Len(es)} ELSE {})
    \cup {[es EXCEPT ![i] = es[i + 1], ![i + 1] = es[i]] : i \in 1..(Len(es) - 1)}
    \cup {[es EXCEPT ![i] = <<es[i][2], es[i][1]>>] : i \in 1..Len(es)}

FirstQuery ==
    /\ first.op = "none"
    /\ (connected_components \/ IsReachable)

\* the caller keeps the value of the first query
Keep ==
    /\ pc = "returned"
    /\ first.op = "none"
    /\ first' = [op |-> op, v |-> arg_v, w |-> arg_w, reachable |-> reachable,
                 members |-> Members(result)]
    /\ pc' = "idle"
    /\ op' = "none"
    /\ arg_v' = 0
    /\ arg_w' = 0
    /\ adj' = NoAdj
    /\ visited' = {}
    /\ component' = <<>>
    /\ components' = <<>>
    /\ scan' = {}
    /\ stack' = <<>>
    /\ origin' = 0
    /\ visits' = 0
    /\ result' = <<>>
    /\ reachable' = FALSE
    /\ UNCHANGED <<graph, source, rebuilt>>

\* Graph::new on the same vertices and a rewritten edge list
Rebuild ==
    /\ pc = "idle"
    /\ first.op # "none"
    /\ ~rebuilt
    /\ \E es \in Rewrites(edges) : edges' = es
    /\ rebuilt' = TRUE
    /\ UNCHANGED <<pc, vertices, call, locals, rets, source, first>>

\* is_reachable(w, v) after is_reachable(v, w) on the same graph
SecondSwapped ==
    /\ first.op = "reach"
    /\ ~rebuilt
    /\ is_reachable(first.w, first.v)

\* the same is_reachable(v, w) on the rebuilt graph
SecondSame ==
    /\ first.op = "reach"
    /\ rebuilt
    /\ is_reachable(first.v, first.w)

\* connected_components() again on the same graph
SecondComponents ==
    /\ first.op = "cc"
    /\ ~rebuilt
    /\ connected_components

\* any is_reachable(v, w) after connected_components() on the same graph
SecondReach ==
    /\ first.op = "cc"
    /\ ~rebuilt
    /\ IsReachable

\* connected_components() again on the rebuilt graph
SecondComponentsRebuilt ==
    /\ first.op = "cc"
    /\ rebuilt
    /\ connected_components

Finish ==
    /\ first.op # "none"
    /\ Resume

\* closed graphs; two queries on the same graph
NextPair ==
    \/ NewClosed
    \/ FirstQuery
    \/ Step
    \/ Keep
    \/ SecondSwapped
    \/ SecondComponents
    \/ SecondReach
    \/ Finish

SpecPair == Init /\ [][NextPair]_vars

\* closed graphs; a query, the graph rebuilt, the same query
NextRebuild ==
    \/ NewClosed
    \/ FirstQuery
    \/ Step
    \/ Keep
    \/ Rebuild
    \/ SecondSame
    \/ SecondComponentsRebuilt
    \/ Finish

SpecRebuild == Init /\ [][NextRebuild]_vars

\* ------------------------------------------------------------------ fairness
\* closed graphs; a query in progress keeps running
NextClosed ==
    \/ NewClosed
    \/ Drop
    \/ connected_components
    \/ IsReachable
    \/ Step
    \/ Resume

SpecFair == Init /\ [][NextClosed]_vars /\ WF_vars(Step)

\* ------------------------------------------------------------------ reference notions
\* an edge of the list joins a and b, in either orientation
Linked(a, b) ==
    \E i \in 1..Len(edges) : edges[i] = <<a, b>> \/ edges[i] = <<b, a>>

Endpoints == UNION {{edges[i][1], edges[i][2]} : i \in 1..Len(edges)}

RECURSIVE PathClosure(_)
PathClosure(S) ==
    LET T == S \cup {b \in Endpoints : \E a \in S : Linked(a, b)} IN
    IF T = S THEN S ELSE PathClosure(T)

\* the vertices joined to v by a path of zero or more undirected edges
Connected(v) == PathClosure({v})

IsClosed == Closed(vertices, edges)

\* the places of a components list that hold x
Places(l, x) == UNION {{<<i, j>> : j \in {k \in DOMAIN l[i] : l[i][k] = x}} : i \in DOMAIN l}

\* ------------------------------------------------------------------ claims

\* C1: on a closed graph connected_components() returns a partition of the
\* vertex set: no component is empty, every vertex is at exactly one place of
\* the result, nothing outside vertices appears, the union is vertices, and an
\* empty vertex set gives the empty list; for every enumeration order.
C1_Partition ==
    (pc = "returned" /\ op = "cc" /\ IsClosed) =>
        /\ \A i \in DOMAIN result : result[i] # <<>>
        /\ \A x \in vertices : Cardinality(Places(result, x)) = 1
        /\ \A i \in DOMAIN result : Range(result[i]) \subseteq vertices
        /\ UNION Members(result) = vertices
        /\ (vertices = {} => result = <<>>)

\* a closed graph of three vertices came out as two components, one of two vertices
C1_Witness ==
    /\ pc = "returned" /\ op = "cc" /\ IsClosed
    /\ Cardinality(vertices) = 3
    /\ Len(result) = 2
    /\ \E i \in DOMAIN result : Len(result[i]) = 2

\* C3: on a closed graph an exploration from v in vertices with an empty
\* visited set ends with visited, and the discovery list as a set, equal to the
\* set of vertices joined to v by a path; is_reachable(v, w) is true iff w is
\* in that set.
C3_ExploreExact ==
    (pc = "returned" /\ op = "reach" /\ IsClosed /\ arg_v \in vertices) =>
        /\ visited = Connected(arg_v)
        /\ Range(component) = Connected(arg_v)
        /\ reachable = (arg_w \in Connected(arg_v))

\* an exploration that went two edges deep and answered true for a third vertex
C3_Witness ==
    /\ pc = "returned" /\ op = "reach" /\ IsClosed /\ arg_v \in vertices
    /\ Cardinality(visited) = 3
    /\ ~Linked(arg_v, arg_w) /\ arg_v # arg_w
    /\ reachable

\* C8 as stated: from an origin outside vertices of a closed graph the
\* exploration marks and records nothing, or ends in an error.
C8_EmptyOrError ==
    (op = "reach" /\ IsClosed /\ arg_v \notin vertices) =>
        (pc = "panic" \/ (visited = {} /\ component = <<>>))

\* C8 amended: from an origin v outside vertices of a closed graph the
\* exploration does not fail and marks and records exactly v, so
\* is_reachable(v, w) is true iff w = v.
C8_Singleton ==
    (op = "reach" /\ IsClosed /\ arg_v \notin vertices) =>
        /\ pc \in {"visit", "returned"}
        /\ visited = {arg_v}
        /\ component = <<arg_v>>
        /\ visits = 1
        /\ (pc = "returned" => reachable = (arg_w = arg_v))

\* is_reachable returned for an origin outside a non-empty closed graph with edges
C8_Witness ==
    /\ pc = "returned" /\ op = "reach" /\ IsClosed
    /\ arg_v \notin vertices /\ arg_w \in vertices
    /\ edges # <<>>

\* on a graph that is not closed no query marks, records or returns anything
\* but the empty list of an empty vertex set
C10_State ==
    (~IsClosed /\ pc \notin {"init", "idle"}) =>
        /\ op = "reach" => pc = "panic"
        /\ (op = "cc" /\ vertices # {}) =>
              (pc = "panic" \/ (pc = "dfs" /\ scan = vertices))
        /\ (op = "cc" /\ vertices = {}) =>
              (pc \in {"dfs", "returned"} /\ components = <<>>)
        /\ visited = {} /\ component = <<>> /\ components = <<>> /\ stack = <<>>
        /\ result = <<>> /\ reachable = FALSE

\* C10: on a graph that is not closed the adjacency build aborts before
\* anything is marked or returned: is_reachable fails for every v, w;
\* connected_components() fails when vertices is non-empty, at its first
\* exploration; with an empty vertex set it returns the empty list.
C10_OpenGraphFails ==
    /\ []C10_State
    /\ [][(~IsClosed /\ pc = "dfs" /\ scan # {}) => pc' = "panic"]_vars
    /\ [][(~IsClosed /\ pc = "idle" /\ op' = "reach") => pc' = "panic"]_vars

\* is_reachable aborted for two declared vertices of a graph that is not closed
C10_Witness ==
    /\ pc = "panic" /\ op = "reach" /\ ~IsClosed
    /\ arg_v \in vertices /\ arg_w \in vertices /\ arg_v # arg_w

\* the second of two queries has returned
SecondReturned == pc = "returned" /\ first.op # "none"

\* C2: on a closed graph, for v, w in vertices, is_reachable(v, w) is true when
\* one component of connected_components() holds both and false when two
\* different components hold them.
C2_ReachableIffSameComponent ==
    (SecondReturned /\ first.op = "cc" /\ op = "reach" /\ ~rebuilt
        /\ arg_v \in vertices /\ arg_w \in vertices) =>
        /\ (\E c \in first.members : arg_v \in c /\ arg_w \in c) => reachable
        /\ (\E c, d \in first.members : c # d /\ arg_v \in c /\ arg_w \in d)
              => ~reachable

\* true for two vertices of the component of three, two edges apart
C2_WitnessSame ==
    /\ SecondReturned /\ first.op = "cc" /\ op = "reach" /\ ~rebuilt
    /\ arg_v \in vertices /\ arg_w \in vertices /\ arg_v # arg_w
    /\ ~Linked(arg_v, arg_w)
    /\ \E c \in first.members : arg_v \in c /\ arg_w \in c
    /\ reachable

\* C4: on a closed graph is_reachable(v, w) = is_reachable(w, v) for all
\* vertex identifiers v, w, in vertices or not.
C4_Symmetric ==
    (SecondReturned /\ first.op = "reach" /\ op = "reach" /\ ~rebuilt
        /\ arg_v = first.w /\ arg_w = first.v) =>
        reachable = first.reachable

\* both directions answered true for two vertices that no single edge joins
C4_Witness ==
    /\ SecondReturned /\ first.op = "reach" /\ op = "reach" /\ ~rebuilt
    /\ arg_v = first.w /\ arg_w = first.v /\ arg_v # arg_w
    /\ ~Linked(arg_v, arg_w)
    /\ reachable

\* C5: two calls of connected_components() on the same closed graph give the
\* same set of components by membership, whatever the enumeration orders.
C5_SameMembership ==
    (SecondReturned /\ first.op = "cc" /\ op = "cc" /\ ~rebuilt) =>
        Members(result) = first.members

\* the second call returned a component of three vertices discovered in
\* descending order
C5_Witness ==
    /\ SecondReturned /\ first.op = "cc" /\ op = "cc" /\ ~rebuilt
    /\ \E i \in DOMAIN result :
          /\ Len(result[i]) = 3
          /\ result[i][1] > result[i][2] /\ result[i][2] > result[i][3]

\* C6: duplicating, exchanging or turning round edges changes neither the
\* component membership of connected_components() nor any is_reachable(v, w).
C6_EdgeListInvariant ==
    (SecondReturned /\ rebuilt) =>
        /\ (first.op = "cc" /\ op = "cc") => Members(result) = first.members
        /\ (first.op = "reach" /\ op = "reach" /\ arg_v = first.v /\ arg_w = first.w)
              => reachable = first.reachable

\* is_reachable answered true on the rebuilt graph for two vertices two edges apart
C6_Witness ==
    /\ SecondReturned /\ rebuilt
    /\ first.op = "reach" /\ op = "reach" /\ arg_v = first.v /\ arg_w = first.w
    /\ arg_v # arg_w /\ ~Linked(arg_v, arg_w)
    /\ reachable

\* visit is entered once per vertex at most, and the recursion is no deeper
\* than the component being explored
C9_Bounds ==
    /\ visits = Cardinality(visited)
    /\ op = "cc" => visits <= Cardinality(vertices)
    /\ op = "reach" => visits <= Cardinality(Connected(arg_v))
    /\ pc = "visit" => Len(stack) <= Cardinality(Connected(origin))
    /\ \A i, j \in DOMAIN stack : i # j => stack[i].v # stack[j].v

\* C9: on a closed graph every query runs to completion; visit is entered at
\* most once per vertex, so at most |vertices| times by connected_components()
\* and at most the size of v's component by is_reachable(v, w), and the
\* recursion is never deeper than the component being explored.
C9_Termination ==
    /\ []C9_Bounds
    /\ (pc \in {"dfs", "visit"}) ~> (pc = "returned")

\* the recursion is as deep as the component of three vertices being explored
C9_Witness ==
    /\ pc = "visit"
    /\ Len(stack) = 3
    /\ Cardinality(Connected(origin)) = 3

\* x <= y as u32
LeqU32(x, y) == x[1] < y[1] \/ (x[1] = y[1] /\ x[2] <= y[2])

\* load has returned a graph
Loaded == reads > 0 /\ op # "load"

\* C7: for every header (V, E) load reads 1 + E tuples and returns the graph
\* of vertices {1, ..., V} and of the E tuples after the header, in the order
\* read, unchecked; the source 3 2, (1,2), (2,3) gives the one component {1,2,3}.
C7_LoadExact ==
    /\ op = "load" => pc # "panic"
    /\ pc = "load" => (reads = 1 + Len(tuples) /\ edges = tuples)
    /\ Loaded =>
          /\ reads = 1 + hdr_e
          /\ Len(edges) = hdr_e
          /\ edges = tuples
          /\ \A n \in vertices \cup (0..(MaxVertex + 1)) :
                n \in vertices <=> (n >= 1 /\ LeqU32(U32(n), hdr_v))
    /\ (Loaded /\ hdr_v = U32(3) /\ tuples = <<<<1, 2>>, <<2, 3>>>>
           /\ pc = "returned" /\ op = "cc") =>
          (Len(result) = 1 /\ Members(result) = {{1, 2, 3}})

\* the statement of C7 for the headers with V below the largest u32
C7_LoadExactBelowMax == (hdr_v # U32Max) => C7_LoadExact

====
